---- MODULE Spec2Model ----
(***************************************************************************)
(* A model of src/node_events.cc: EventEmitter::Emit and the EventSource   *)
(* callback machinery (_MakeCallback, MakeCallback and the process-wide    *)
(* current_source slot).                                                   *)
(*                                                                         *)
(* The program is single threaded and re-entrant: a callable invoked by    *)
(* native code (a callback, the tick callback, a listener) is script code  *)
(* that may call back into native code or change the stored listeners      *)
(* before it returns or throws.  The native frames that are waiting for    *)
(* such a callable are kept in `stack`; the script code running on top of  *)
(* them is the environment, and each of its possible moves is one action.  *)
(* Spec is the EventSource callback machine, SpecEmit the EventEmitter     *)
(* machine, SpecLife the EventSource life cycle (Active, Inactive, the     *)
(* weak parent link and the collector) around callbacks and emissions.     *)
(***************************************************************************)
EXTENDS Integers, Sequences, FiniteSets, TLC

\* ------------------------------------------------------------------ bounds
MaxDepth == 2        \* MakeCallback frames simultaneously on the call stack
NumSources == 3      \* EventSource objects
NumValues == 2       \* distinct script values a callable may return
NumFns == 2          \* distinct listener functions
MaxListeners == 3    \* length of a stored listener array
MaxLifeCalls == 3    \* calls of Active and Inactive in one run

Sources == 1..NumSources
Values == 1..NumValues
Fns == 1..NumFns

NULL == 0            \* the null EventSource*
Empty == 0           \* the empty handle Local<Value>()
NonFn == 0           \* an array element that is not a function

ArgLists == {<< >>, <<1, 2>>}   \* the (argc, argv) pairs passed in

VARIABLES
  ndebug,           \* the build: TRUE when assert() is compiled out (NDEBUG)
  current_source,   \* EventSource::current_source
  tick_cb,          \* static Persistent<Function> tick_cb is non-empty
  process,          \* static Persistent<Object> process is non-empty
  tick_cb_v,        \* process._tickCallback is a function
  callback_v,       \* per source: handle_->Get("callback") is a function
  events_v,         \* handle_->Get("_events") of the emitter is an object
  listeners_v,      \* events->Get(event): the stored value for the event
  stack,            \* native frames waiting for a callable to come back
  status,           \* "running", "exit" (exit(1) at line 104), "assert_entry"
                    \* (assert at line 87), "assert_tick" (assert at line 136)
                    \* or "assert_weak" (assert at line 226)
  exited,           \* what _MakeCallback reported on its fatal path
  result,           \* what the native call that returned in the last step
                    \* gave its caller; NoResult after any other step
  trace_,           \* per source: Persistent<StackTrace> trace_ is non-empty
  parent_source_,   \* per source: the object parent_source_ refers to, or NULL
  orphans,          \* per source: the objects of the weak handles that line
                    \* 218 overwrote without disposing them
  refs_,            \* per source: ObjectWrap::refs_
  collected,        \* the sources whose host object has been collected
  life_calls        \* the calls of Active and Inactive made so far

vars == <<ndebug, current_source, tick_cb, process, tick_cb_v, callback_v,
          events_v, listeners_v, stack, status, exited, result,
          trace_, parent_source_, orphans, refs_, collected, life_calls>>

sourceVars == <<current_source, tick_cb, process, exited>>
emitterVars == <<events_v, listeners_v>>
envVars == <<ndebug, tick_cb_v, callback_v>>
lifeVars == <<trace_, parent_source_, orphans, refs_, collected, life_calls>>

NoResult == [op |-> "none"]
NoExit == [source |-> NULL]

\* ------------------------------------------------------- stored listeners
Undefined == [kind |-> "undefined", fn |-> NonFn, arr |-> << >>]
Other == [kind |-> "other", fn |-> NonFn, arr |-> << >>]
FunctionValue(f) == [kind |-> "function", fn |-> f, arr |-> << >>]
ArrayValue(a) == [kind |-> "array", fn |-> NonFn, arr |-> a]

Elements == Fns \cup {NonFn}

Arrays == UNION {[1..n -> Elements] : n \in 0..MaxListeners}

StoredValues == {Undefined, Other} \cup {FunctionValue(f) : f \in Fns}
                  \cup {ArrayValue(a) : a \in Arrays}

\* ------------------------------------------------------------------- Init
Init ==
  /\ ndebug \in BOOLEAN
  /\ current_source = NULL
  /\ tick_cb = FALSE
  /\ process = FALSE
  /\ tick_cb_v \in BOOLEAN
  /\ callback_v \in [Sources -> BOOLEAN]
  /\ events_v = FALSE
  /\ listeners_v = Undefined
  /\ stack = << >>
  /\ status = "running"
  /\ exited = NoExit
  /\ result = NoResult
  /\ trace_ = [s \in Sources |-> FALSE]
  /\ parent_source_ = [s \in Sources |-> NULL]
  /\ orphans = [s \in Sources |-> {}]
  /\ refs_ = [s \in Sources |-> 0]
  /\ collected = {}
  /\ life_calls = 0

\* -------------------------------------------------------------- the stack
Top == stack[Len(stack)]
Pop == SubSeq(stack, 1, Len(stack) - 1)
ReplaceTop(f) == [stack EXCEPT ![Len(stack)] = f]

\* Script code is running and may call into native code: either the
\* scheduler at top level, or a callable some native frame is waiting for.
CanCall == status = "running" /\ Len(stack) < MaxDepth

\* Emit is called by script code wherever it runs: at top level, in a
\* running listener or in a callback of MakeCallback.  line 27 has no guard;
\* the depth of the native stack is bounded like that of MakeCallback.
CanEmit == status = "running" /\ Len(stack) < MaxDepth

InMakeCallback == status = "running" /\ stack # << >>
                    /\ Top.kind = "MakeCallback"

\* ============================================================ EventSource

\* line 87: assert(current_source == NULL)
EntryAssertion == current_source = NULL

\* A variant that leaves the slot set until the error has been handled.
RestoreSourceDeferred(self) == self

\* line 92: current_source = NULL, executed as soon as cb->Call comes back
\* and before try_catch is looked at.
RestoreSource(self) == NULL

\* A variant with the test of line 127 inverted.
HasResultInverted(ret) == ret = Empty

\* line 127: if (!ret.IsEmpty())
HasResult(ret) == ret # Empty

\* line 128 and 134: the cached handles are missing and the lookup of
\* process._tickCallback does not give a function.
TickLookupFails == (~tick_cb \/ ~process) /\ ~tick_cb_v

\* line 143: _MakeCallback(tick_cb, process, 0, NULL)
TickArgv == << >>

\* lines 143 and 146: ret is overwritten by the second _MakeCallback and
\* that is what scope.Close(ret) hands back.
MakeCallbackReturn(ret_callback, ret_tick) == ret_tick

Call(fn, target, argv) == [fn |-> fn, target |-> target, argv |-> argv]

MakeCallbackFrame(s, argv, from) ==
  [kind |-> "MakeCallback", self |-> s, argv |-> argv, callee |-> "callback",
   entered_from |-> from, ret |-> Empty,
   calls |-> <<Call("callback", "handle_", argv)>>]

Returned(f, value, ret_callback) ==
  [op |-> "MakeCallback", self |-> f.self, argv |-> f.argv, value |-> value,
   ret_callback |-> ret_callback, calls |-> f.calls,
   entered_from |-> f.entered_from]

\* A variant that looks the tick callback up before it returns.
MakeCallbackNotCallableLooksUp(s, argv) ==
  /\ CanCall
  /\ ~callback_v[s]
  /\ process' = TRUE
  /\ tick_cb' = (tick_cb \/ tick_cb_v)
  /\ result' = [op |-> "MakeCallback", self |-> s, argv |-> argv,
                value |-> Empty, ret_callback |-> Empty, calls |-> << >>,
                entered_from |-> current_source]
  /\ UNCHANGED <<current_source, exited, emitterVars, envVars, lifeVars,
                 stack, status>>

\* lines 118-119: the callback property is not a function.
MakeCallbackNotCallable(s, argv) ==
  /\ CanCall
  /\ ~callback_v[s]
  /\ result' = [op |-> "MakeCallback", self |-> s, argv |-> argv,
                value |-> Empty, ret_callback |-> Empty, calls |-> << >>,
                entered_from |-> current_source]
  /\ UNCHANGED <<sourceVars, emitterVars, envVars, lifeVars, stack, status>>

\* lines 118-124 and 87: the assertion at the entry of _MakeCallback fails.
MakeCallbackAssert(s, argv) ==
  /\ CanCall
  /\ callback_v[s]
  /\ ~EntryAssertion /\ ~ndebug
  /\ status' = "assert_entry"
  /\ result' = NoResult
  /\ UNCHANGED <<sourceVars, emitterVars, envVars, lifeVars, stack>>

\* lines 118-124 and 85-90: up to cb->Call(target, argc, argv).
MakeCallbackEnter(s, argv) ==
  /\ CanCall
  /\ callback_v[s]
  /\ EntryAssertion \/ ndebug
  /\ current_source' = s
  /\ stack' = Append(stack, MakeCallbackFrame(s, argv, current_source))
  /\ result' = NoResult
  /\ UNCHANGED <<tick_cb, process, exited, emitterVars, envVars, lifeVars,
                 status>>

\* The callback returned v.  lines 92-107, 127-143 and, in the second
\* _MakeCallback, 85-90: the tick callback is looked up if need be and
\* called.
CallbackReturnDrain(v) ==
  /\ InMakeCallback /\ Top.callee = "callback"
  /\ HasResult(v) /\ ~TickLookupFails
  /\ process' = TRUE
  /\ tick_cb' = TRUE
  /\ IF RestoreSource(Top.self) = NULL \/ ndebug
       THEN /\ current_source' = Top.self
            /\ stack' = ReplaceTop([Top EXCEPT
                          !.callee = "tick", !.ret = v,
                          !.calls = Append(@, Call("tick", "process", TickArgv))])
            /\ status' = status
       ELSE /\ current_source' = RestoreSource(Top.self)
            /\ stack' = stack
            /\ status' = "assert_entry"
  /\ result' = NoResult
  /\ UNCHANGED <<exited, emitterVars, envVars, lifeVars>>

\* The callback returned v but process._tickCallback is not a function, in
\* a build with assertions.  lines 92, 127-136.
CallbackReturnAssert(v) ==
  /\ InMakeCallback /\ Top.callee = "callback"
  /\ HasResult(v) /\ TickLookupFails /\ ~ndebug
  /\ current_source' = RestoreSource(Top.self)
  /\ process' = TRUE
  /\ status' = "assert_tick"
  /\ result' = NoResult
  /\ UNCHANGED <<tick_cb, exited, emitterVars, envVars, lifeVars, stack>>

\* The callback returned v and MakeCallback returns it without a drain:
\* process._tickCallback is not a function and assert(0) is compiled out
\* (lines 92, 127-137), or ret is empty (lines 127, 146).
CallbackReturnPlain(v) ==
  /\ InMakeCallback /\ Top.callee = "callback"
  /\ ~HasResult(v) \/ (TickLookupFails /\ ndebug)
  /\ current_source' = RestoreSource(Top.self)
  /\ process' = (process \/ HasResult(v))
  /\ stack' = Pop
  /\ result' = Returned(Top, v, v)
  /\ UNCHANGED <<tick_cb, exited, emitterVars, envVars, lifeVars, status>>

\* A variant in which the second _MakeCallback leaves current_source set.
TickReturnKeepsSource(w) ==
  /\ InMakeCallback /\ Top.callee = "tick"
  /\ stack' = Pop
  /\ result' = Returned(Top, MakeCallbackReturn(Top.ret, w), Top.ret)
  /\ UNCHANGED <<sourceVars, emitterVars, envVars, lifeVars, status>>

\* The tick callback returned w.  lines 92-107 and 146.
TickReturn(w) ==
  /\ InMakeCallback /\ Top.callee = "tick"
  /\ current_source' = RestoreSource(Top.self)
  /\ stack' = Pop
  /\ result' = Returned(Top, MakeCallbackReturn(Top.ret, w), Top.ret)
  /\ UNCHANGED <<tick_cb, process, exited, emitterVars, envVars, lifeVars,
                 status>>

\* The number of ancestor traces PrintStack follows.  Its value is set in
\* node_events.h; the model takes a small one.
kAncestorStackLimit == 1

\* A variant that counts the source's own trace among the
\* kAncestorStackLimit it prints.
RECURSIVE PrintStackStrict(_, _)
PrintStackStrict(s, count) ==
  IF ~trace_[s] THEN 0
  ELSE 1 + (IF parent_source_[s] # NULL /\ count + 1 < kAncestorStackLimit
              THEN PrintStackStrict(parent_source_[s], count + 1)
              ELSE 0)

\* lines 150-180: the number of sections (separator line and frames) that
\* PrintStack(count) of source s writes to stderr.
RECURSIVE PrintStack(_, _)
PrintStack(s, count) ==
  IF ~trace_[s] THEN 0
  ELSE 1 + (IF parent_source_[s] # NULL /\ count < kAncestorStackLimit
              THEN PrintStack(parent_source_[s], count + 1)
              ELSE 0)

\* The callable (callback or tick callback) threw.  lines 92-104:
\* ReportException, PrintStack and exit(1) all see the slot as line 92 left
\* it.
CalleeThrow ==
  /\ InMakeCallback
  /\ current_source' = RestoreSource(Top.self)
  /\ exited' = [source |-> Top.self, callee |-> Top.callee,
                current_source |-> RestoreSource(Top.self),
                sections |-> PrintStack(Top.self, 0)]
  /\ status' = "exit"
  /\ result' = NoResult
  /\ UNCHANGED <<tick_cb, process, emitterVars, envVars, lifeVars, stack>>

Next ==
  \/ \E s \in Sources, argv \in ArgLists : MakeCallbackNotCallable(s, argv)
  \/ \E s \in Sources, argv \in ArgLists : MakeCallbackAssert(s, argv)
  \/ \E s \in Sources, argv \in ArgLists : MakeCallbackEnter(s, argv)
  \/ \E v \in Values : CallbackReturnDrain(v)
  \/ \E v \in Values : CallbackReturnAssert(v)
  \/ \E v \in Values : CallbackReturnPlain(v)
  \/ \E w \in Values : TickReturn(w)
  \/ CalleeThrow

Spec == Init /\ [][Next]_vars


\* ================================================= EventSource life cycle

\* ObjectWrap::Ref and ObjectWrap::Unref of node_object_wrap.h: the external
\* reference count of the host object goes up and down by one.
Ref(refs) == refs + 1
Unref(refs) == refs - 1

\* A variant of DeleteParent that leaves the handle in place.
DeleteParentKeeps(parent) == parent

\* lines 231-237: parent_source_ after DeleteParent(): ClearWeak, Dispose
\* and Clear when it is non-empty, nothing otherwise.
DeleteParent(parent) == NULL

\* lines 197-202: trace_ after ClearStack().
ClearStack(trace) == FALSE

\* lines 216-220: parent_source_ after RecordStack(): a new weak handle to
\* current_source->handle_ when current_source is set, else what it was.
RecordedParent(s) ==
  IF current_source # NULL THEN current_source ELSE parent_source_[s]

\* line 218: the handle parent_source_ held is overwritten, not disposed; it
\* stays registered with WeakParent and s as its data.
RecordedOrphans(s) ==
  IF current_source # NULL /\ parent_source_[s] # NULL
    THEN orphans[s] \cup {parent_source_[s]}
    ELSE orphans[s]

Alive == Sources \ collected

\* lines 183-187 with 205-221: Ref(), then RecordStack().
Active(s) ==
  /\ status = "running"
  /\ s \in Alive
  /\ life_calls < MaxLifeCalls
  /\ life_calls' = life_calls + 1
  /\ refs_' = [refs_ EXCEPT ![s] = Ref(@)]
  /\ trace_' = [trace_ EXCEPT ![s] = TRUE]
  /\ parent_source_' = [parent_source_ EXCEPT ![s] = RecordedParent(s)]
  /\ orphans' = [orphans EXCEPT ![s] = RecordedOrphans(s)]
  /\ result' = [op |-> "Active", self |-> s]
  /\ UNCHANGED <<sourceVars, emitterVars, envVars, stack, status, collected>>

\* lines 190-194: DeleteParent(), ClearStack(), Unref().
Inactive(s) ==
  /\ status = "running"
  /\ s \in Alive
  /\ life_calls < MaxLifeCalls
  /\ life_calls' = life_calls + 1
  /\ parent_source_' = [parent_source_ EXCEPT ![s] = DeleteParent(@)]
  /\ trace_' = [trace_ EXCEPT ![s] = ClearStack(@)]
  /\ refs_' = [refs_ EXCEPT ![s] = Unref(@)]
  /\ result' = [op |-> "Inactive", self |-> s]
  /\ UNCHANGED <<sourceVars, emitterVars, envVars, stack, status, orphans,
                 collected>>

OnStack(a) ==
  \E n \in 1..Len(stack) : stack[n].kind = "MakeCallback" /\ stack[n].self = a

\* The collector may reclaim the host object of a: it is not pinned by
\* Ref(), no native frame holds it, and weak handles (line 219) do not keep
\* it.  A source that still owns weak handles of its own is kept reachable
\* by the scheduler: what ~EventSource does with them is not in this file.
Collectable(a) ==
  /\ status = "running"
  /\ a \in Alive
  /\ refs_[a] <= 0
  /\ ~OnStack(a)
  /\ parent_source_[a] = NULL /\ orphans[a] = {}

\* line 226: assert(s->parent_source_->StrictEquals(object))
WeakParentAssertion(s, object) == parent_source_[s] = object

\* The sources for which WeakParent runs when the object of a is collected:
\* one call per weak handle that refers to it.
Notified(a) ==
  {s \in Alive : parent_source_[s] = a \/ a \in orphans[s]}

\* The object of a is collected and WeakParent (lines 224-228) runs for
\* every weak handle to it without the assertion stopping the process: the
\* assertion holds, or is compiled out, and DeleteParent clears the link.
\* The call for an orphan handle finds parent_source_ empty when the call
\* for the current handle came first; evaluating the assertion then
\* dereferences an empty handle, and this action is the outcome that goes
\* on.
Collect(a) ==
  /\ Collectable(a)
  /\ Notified(a) # {}
  /\ ndebug \/ \A s \in Notified(a) :
                 WeakParentAssertion(s, a) \/ parent_source_[s] = NULL
  /\ parent_source_' = [s \in Sources |->
                          IF s \in Notified(a)
                            THEN DeleteParent(parent_source_[s])
                            ELSE parent_source_[s]]
  /\ orphans' = [s \in Sources |-> orphans[s] \ {a}]
  /\ collected' = collected \cup {a}
  /\ result' = [op |-> "WeakParent", object |-> a, sources |-> Notified(a)]
  /\ UNCHANGED <<sourceVars, emitterVars, envVars, stack, status, trace_,
                 refs_, life_calls>>

\* The object of a is collected and no weak handle refers to it.
CollectUnreferenced(a) ==
  /\ Collectable(a)
  /\ Notified(a) = {}
  /\ collected' = collected \cup {a}
  /\ result' = NoResult
  /\ UNCHANGED <<sourceVars, emitterVars, envVars, stack, status, trace_,
                 parent_source_, orphans, refs_, life_calls>>

\* The object of a is collected and, in a build with assertions, WeakParent
\* stops the process at line 226.  The collector runs WeakParent once for
\* every weak handle to the object, in an order of its own.  The calls for
\* the sources of `passed` come first: each finds parent_source_ referring
\* to the object, passes the assertion and runs DeleteParent.  Then the call
\* for an orphan handle of s fails: parent_source_ of s refers to another
\* object, or is empty (it was before, or a call before this one cleared
\* it).
CollectAssert(a) ==
  /\ Collectable(a)
  /\ ~ndebug
  /\ \E s \in Notified(a) :
       \E passed \in SUBSET {p \in Notified(a) : WeakParentAssertion(p, a)} :
         /\ a \in orphans[s]
         /\ ~WeakParentAssertion(s, a) \/ s \in passed
         /\ parent_source_' = [p \in Sources |->
                                 IF p \in passed
                                   THEN DeleteParent(parent_source_[p])
                                   ELSE parent_source_[p]]
  /\ status' = "assert_weak"
  /\ collected' = collected \cup {a}
  /\ result' = NoResult
  /\ UNCHANGED <<sourceVars, emitterVars, envVars, stack, trace_, orphans,
                 refs_, life_calls>>

\* =========================================================== EventEmitter

InEmit == status = "running" /\ stack # << >> /\ Top.kind = "Emit"

\* line 55: listener_v->IsFunction()
IsFunction(e) == e # NonFn

\* A variant that iterates the stored array itself instead of a clone.
ListenersLive(frame, stored) == stored.arr

\* lines 51-54: the array the loop reads its Length() and Get(i) from is the
\* clone made at line 51, held by the frame, not the array stored in
\* _events at the time of the read.
Listeners(frame, stored) == frame.listeners

\* lines 53-55: the first index from k on that holds a function, or
\* Len(arr) + 1 when the loop runs off the end.
RECURSIVE NextListener(_, _)
NextListener(arr, k) ==
  IF k > Len(arr) THEN Len(arr) + 1
  ELSE IF IsFunction(arr[k]) THEN k
  ELSE NextListener(arr, k + 1)

\* A variant that calls the listener on the global object.
ListenerCallGlobal(listener, argv) == Call(listener, "global", argv)

\* lines 43 and 58: listener->Call(handle_, argc, argv)
ListenerCall(listener, argv) == Call(listener, "handle_", argv)

\* A variant of line 32 that returns true.
NoEventsValueTrue == TRUE

\* line 32: if (!events_v->IsObject()) return false;
NoEventsValue == FALSE

\* A variant of line 67 that returns true.
NoListenersValueTrue == TRUE

\* lines 66-68: else return false;
NoListenersValue == FALSE

\* FatalException(try_catch) of node.cc: the error is reported and control
\* comes back to Emit.
FatalException(reports) == reports + 1

EmitFrame(shape, argv, arr, i) ==
  [kind |-> "Emit", shape |-> shape, argv |-> argv, listeners |-> arr,
   i |-> i, calls |-> <<ListenerCall(arr[i], argv)>>, reports |-> 0]

EmitResult(value, shape, argv, arr, i, calls, reports) ==
  [op |-> "Emit", value |-> value, shape |-> shape, argv |-> argv,
   listeners |-> arr, i |-> i, calls |-> calls, reports |-> reports]

\* lines 31-32: _events is not an object.
EmitNoEvents(argv) ==
  /\ CanEmit
  /\ ~events_v
  /\ result' = EmitResult(NoEventsValue, "none", argv, << >>, 0, << >>, 0)
  /\ UNCHANGED <<sourceVars, emitterVars, envVars, lifeVars, stack, status>>

\* lines 31-39, 50, 66-67: the stored value is neither function nor array.
EmitNoListeners(argv) ==
  /\ CanEmit
  /\ events_v
  /\ listeners_v.kind \notin {"function", "array"}
  /\ result' = EmitResult(NoListenersValue, listeners_v.kind, argv, << >>, 0,
                          << >>, 0)
  /\ UNCHANGED <<sourceVars, emitterVars, envVars, lifeVars, stack, status>>

\* A variant of the one-listener case that drops the arguments.
EmitFunctionNoArguments(argv) ==
  /\ CanEmit
  /\ events_v
  /\ listeners_v.kind = "function"
  /\ stack' = Append(stack,
                     [EmitFrame("function", argv, <<listeners_v.fn>>, 1)
                        EXCEPT !.calls = <<ListenerCall(listeners_v.fn, << >>)>>])
  /\ result' = NoResult
  /\ UNCHANGED <<sourceVars, emitterVars, envVars, lifeVars, status>>

\* lines 31-43: the one-listener case, up to listener->Call.
EmitFunction(argv) ==
  /\ CanEmit
  /\ events_v
  /\ listeners_v.kind = "function"
  /\ stack' = Append(stack, EmitFrame("function", argv, <<listeners_v.fn>>, 1))
  /\ result' = NoResult
  /\ UNCHANGED <<sourceVars, emitterVars, envVars, lifeVars, status>>

\* lines 31-58: the array is cloned and the loop runs to its first function.
EmitArray(argv) ==
  /\ CanEmit
  /\ events_v
  /\ listeners_v.kind = "array"
  /\ NextListener(listeners_v.arr, 1) <= Len(listeners_v.arr)
  /\ stack' = Append(stack, EmitFrame("array", argv, listeners_v.arr,
                                      NextListener(listeners_v.arr, 1)))
  /\ result' = NoResult
  /\ UNCHANGED <<sourceVars, emitterVars, envVars, lifeVars, status>>

\* lines 31-55, 70: the clone holds no function; the loop ends, return true.
EmitArrayNoFunction(argv) ==
  /\ CanEmit
  /\ events_v
  /\ listeners_v.kind = "array"
  /\ NextListener(listeners_v.arr, 1) > Len(listeners_v.arr)
  /\ result' = EmitResult(TRUE, "array", argv, listeners_v.arr,
                          Len(listeners_v.arr), << >>, 0)
  /\ UNCHANGED <<sourceVars, emitterVars, envVars, lifeVars, stack, status>>

\* The listener returned and the loop calls the next function of the
\* array.  lines 60, 53-58.
ListenerReturnNext ==
  /\ InEmit /\ Top.shape = "array"
  /\ LET arr == Listeners(Top, listeners_v)
         j == NextListener(arr, Top.i + 1)
     IN /\ j <= Len(arr)
        /\ stack' = ReplaceTop([Top EXCEPT
                      !.i = j,
                      !.calls = Append(@, ListenerCall(arr[j], Top.argv))])
  /\ result' = NoResult
  /\ UNCHANGED <<sourceVars, emitterVars, envVars, lifeVars, status>>

\* The listener returned and nothing is left to call.  lines 45, 70 for the
\* one-listener case, lines 60, 53-55, 70 for the array.
ListenerReturnDone ==
  /\ InEmit
  /\ \/ Top.shape = "function"
     \/ /\ Top.shape = "array"
        /\ LET arr == Listeners(Top, listeners_v)
           IN NextListener(arr, Top.i + 1) > Len(arr)
  /\ stack' = Pop
  /\ result' = EmitResult(TRUE, Top.shape, Top.argv, Top.listeners, Top.i,
                          Top.calls, Top.reports)
  /\ UNCHANGED <<sourceVars, emitterVars, envVars, lifeVars, status>>

\* A variant without the return of lines 47 and 62: the error is reported
\* and the loop goes on.
ListenerThrowContinues ==
  /\ InEmit
  /\ LET arr == Listeners(Top, listeners_v)
         j == NextListener(arr, Top.i + 1)
     IN IF Top.shape = "array" /\ j <= Len(arr)
          THEN /\ stack' = ReplaceTop([Top EXCEPT
                             !.i = j,
                             !.calls = Append(@, ListenerCall(arr[j], Top.argv)),
                             !.reports = FatalException(@)])
               /\ result' = NoResult
          ELSE /\ stack' = Pop
               /\ result' = EmitResult(TRUE, Top.shape, Top.argv,
                                       Top.listeners, Top.i, Top.calls,
                                       FatalException(Top.reports))
  /\ UNCHANGED <<sourceVars, emitterVars, envVars, lifeVars, status>>

\* The listener threw.  lines 45-47 and 60-62.
ListenerThrow ==
  /\ InEmit
  /\ stack' = Pop
  /\ result' = EmitResult(FALSE, Top.shape, Top.argv, Top.listeners, Top.i,
                          Top.calls, FatalException(Top.reports))
  /\ UNCHANGED <<sourceVars, emitterVars, envVars, lifeVars, status>>

\* The running listener (through the registration API of events.js) appends
\* an element to the stored array.
AppendListener(e) ==
  /\ InEmit
  /\ events_v
  /\ listeners_v.kind = "array"
  /\ Len(listeners_v.arr) < MaxListeners
  /\ listeners_v' = ArrayValue(Append(listeners_v.arr, e))
  /\ result' = NoResult
  /\ UNCHANGED <<sourceVars, events_v, envVars, lifeVars, stack, status>>

\* The running listener removes the k-th element of the stored array.
RemoveListener(k) ==
  /\ InEmit
  /\ events_v
  /\ listeners_v.kind = "array"
  /\ k \in 1..Len(listeners_v.arr)
  /\ listeners_v' = ArrayValue(SubSeq(listeners_v.arr, 1, k - 1)
                                 \o SubSeq(listeners_v.arr, k + 1,
                                           Len(listeners_v.arr)))
  /\ result' = NoResult
  /\ UNCHANGED <<sourceVars, events_v, envVars, lifeVars, stack, status>>

InitEmit ==
  /\ ndebug = FALSE
  /\ current_source = NULL
  /\ tick_cb = FALSE
  /\ process = FALSE
  /\ tick_cb_v = TRUE
  /\ callback_v = [s \in Sources |-> TRUE]
  /\ events_v \in BOOLEAN
  /\ listeners_v \in StoredValues
  /\ ~events_v => listeners_v = Undefined
  /\ stack = << >>
  /\ status = "running"
  /\ exited = NoExit
  /\ result = NoResult
  /\ trace_ = [s \in Sources |-> FALSE]
  /\ parent_source_ = [s \in Sources |-> NULL]
  /\ orphans = [s \in Sources |-> {}]
  /\ refs_ = [s \in Sources |-> 0]
  /\ collected = {}
  /\ life_calls = 0

NextEmit ==
  \/ \E argv \in ArgLists : EmitNoEvents(argv)
  \/ \E argv \in ArgLists : EmitNoListeners(argv)
  \/ \E argv \in ArgLists : EmitFunction(argv)
  \/ \E argv \in ArgLists : EmitArray(argv)
  \/ \E argv \in ArgLists : EmitArrayNoFunction(argv)
  \/ ListenerReturnNext
  \/ ListenerReturnDone
  \/ ListenerThrow
  \/ \E e \in Elements : AppendListener(e)
  \/ \E k \in 1..MaxListeners : RemoveListener(k)

SpecEmit == InitEmit /\ [][NextEmit]_vars

\* The life cycle runs with process._tickCallback and every callback
\* property present, one argument list and one return value: none of them
\* is read by Active, Inactive, PrintStack or WeakParent.
InitLife ==
  /\ ndebug \in BOOLEAN
  /\ current_source = NULL
  /\ tick_cb = FALSE
  /\ process = FALSE
  /\ tick_cb_v = TRUE
  /\ callback_v = [s \in Sources |-> TRUE]
  /\ events_v = TRUE
  /\ listeners_v = FunctionValue(1)
  /\ stack = << >>
  /\ status = "running"
  /\ exited = NoExit
  /\ result = NoResult
  /\ trace_ = [s \in Sources |-> FALSE]
  /\ parent_source_ = [s \in Sources |-> NULL]
  /\ orphans = [s \in Sources |-> {}]
  /\ refs_ = [s \in Sources |-> 0]
  /\ collected = {}
  /\ life_calls = 0

NextLife ==
  \/ \E s \in Alive : Active(s)
  \/ \E s \in Alive : Inactive(s)
  \/ \E a \in Alive : Collect(a)
  \/ \E a \in Alive : CollectUnreferenced(a)
  \/ \E a \in Alive : CollectAssert(a)
  \/ \E s \in Alive : MakeCallbackAssert(s, << >>)
  \/ \E s \in Alive : MakeCallbackEnter(s, << >>)
  \/ CallbackReturnDrain(1)
  \/ TickReturn(1)
  \/ CalleeThrow
  \/ EmitFunction(<< >>)
  \/ ListenerReturnDone
  \/ ListenerThrow

SpecLife == InitLife /\ [][NextLife]_vars

\* ================================================================= claims

MakeCallbackReturned == result.op = "MakeCallback"
EmitReturned == result.op = "Emit"

\* The calls one Emit makes for the functions of arr, in index order, each
\* on the emitting object and with the arguments of the Emit.
ExpectedCalls(arr, argv) ==
  LET fs == SelectSeq(arr, IsFunction)
  IN [k \in 1..Len(fs) |-> [fn |-> fs[k], target |-> "handle_", argv |-> argv]]

CalledFns(calls) == [k \in 1..Len(calls) |-> calls[k].fn]

\* ---- C1
\* C1: when the callback of a MakeCallback call was callable and returned
\* (neither it nor the tick callback threw), the value MakeCallback returns
\* is the value the callback returned, not the tick callback's.
C1_ReturnsCallbackResult ==
  (MakeCallbackReturned /\ result.ret_callback # Empty)
    => result.value = result.ret_callback

\* ---- C2
\* C2: at any nesting depth, current_source is the innermost EventSource as
\* soon as its callable is entered, and when a MakeCallback call returns
\* current_source is again what it was immediately before that call was
\* entered (the enclosing source for a nested call).
C2_StackDiscipline ==
  [][ /\ (Len(stack') > Len(stack) /\ stack'[Len(stack')].kind = "MakeCallback")
         => current_source' = stack'[Len(stack')].self
      /\ (InMakeCallback /\ Len(stack') < Len(stack))
         => current_source' = Top.entered_from ]_vars

\* ---- C3
\* C3: the assertion current_source == NULL at the entry of _MakeCallback
\* never fails, also when a callback or the tick callback calls MakeCallback.
C3_EntryAssertionHolds == status # "assert_entry"

C5_FatalPath ==
  status = "exit" =>
    /\ exited.current_source = NULL
    /\ current_source = NULL
    /\ stack # << >>
    /\ Top.kind = "MakeCallback"
    /\ Top.self = exited.source
    /\ Top.callee = exited.callee
    /\ result = NoResult
    /\ exited.callee = "callback"
         => Top.calls = <<Call("callback", "handle_", Top.argv)>>

\* The callback of a nested MakeCallback call threw.
C5_Witness ==
  /\ status = "exit"
  /\ exited.callee = "callback"
  /\ Len(stack) = 2

\* ---- C6
\* C6: when the stored value is an array, Emit calls its functions one after
\* the other in index order, each exactly once, on the emitting object and
\* with the arguments of the Emit, and returns true when none of them throws.
C6_ArrayInOrder ==
  /\ (InEmit /\ Top.shape = "array")
       => /\ Top.i \in 1..Len(Top.listeners)
          /\ Top.calls = ExpectedCalls(SubSeq(Top.listeners, 1, Top.i), Top.argv)
  /\ (EmitReturned /\ result.shape = "array" /\ result.reports = 0)
       => /\ result.value = TRUE
          /\ result.calls = ExpectedCalls(result.listeners, result.argv)

\* Emit(O, "x", [1, 2]) with three listeners returned true.
C6_Witness ==
  /\ EmitReturned
  /\ result.value = TRUE
  /\ result.argv = <<1, 2>>
  /\ result.listeners = <<1, 2, 1>>
  /\ Len(result.calls) = 3

\* ---- C7
\* C7: the functions one Emit calls are exactly the functions of the array
\* as it was stored when Emit was called, whatever the listeners do to the
\* stored array meanwhile: a listener removed during the emission is still
\* called, one appended during it is not, none is skipped or called twice.
C7_SnapshotIsolation ==
  /\ (InEmit /\ Top.shape = "array")
       => /\ Top.i <= Len(Top.listeners)
          /\ CalledFns(Top.calls)
               = SelectSeq(SubSeq(Top.listeners, 1, Top.i), IsFunction)
  /\ (EmitReturned /\ result.shape = "array" /\ result.reports = 0)
       => CalledFns(result.calls) = SelectSeq(result.listeners, IsFunction)

\* Emit on [1, 2, 2] returned after calling all three although, during the
\* emission, the two later listeners were removed from the stored array and
\* a new one was appended to it.
C7_Witness ==
  /\ EmitReturned
  /\ result.value = TRUE
  /\ result.listeners = <<1, 2, 2>>
  /\ CalledFns(result.calls) = <<1, 2, 2>>
  /\ listeners_v.arr = <<1, 1>>

\* ---- C8
\* C8: when a listener throws, Emit reports the error once and returns
\* false; the functions before the thrower in the snapshot have each been
\* called once and none after it has been called.
C8_ThrowStops ==
  (EmitReturned /\ result.reports > 0)
    => /\ result.value = FALSE
       /\ result.reports = 1
       /\ result.i \in 1..Len(result.listeners)
       /\ IsFunction(result.listeners[result.i])
       /\ CalledFns(result.calls)
            = SelectSeq(SubSeq(result.listeners, 1, result.i), IsFunction)

\* With listeners [1, 2, 1] the second one threw: two calls, the third
\* listener never called.
C8_Witness ==
  /\ EmitReturned
  /\ result.value = FALSE
  /\ result.reports = 1
  /\ result.listeners = <<1, 2, 1>>
  /\ CalledFns(result.calls) = <<1, 2>>

\* ---- C9
\* C9 as stated: Emit returns true only if it called at least one listener.
C9_TrueImpliesCalled ==
  (EmitReturned /\ result.value = TRUE) => Len(result.calls) >= 1

\* C9 amended: Emit returns true only if the stored value is a function or
\* an array and no called listener threw; it has then called every function
\* of the snapshot, which is no call at all exactly when the array is empty
\* or holds no function.
C9_TrueImpliesRecognized ==
  (EmitReturned /\ result.value = TRUE)
    => /\ result.shape \in {"function", "array"}
       /\ result.reports = 0
       /\ Len(result.calls) = Len(SelectSeq(result.listeners, IsFunction))

\* Emit on an empty array returned true without calling anything.
C9_Witness ==
  /\ EmitReturned
  /\ result.value = TRUE
  /\ result.shape = "array"
  /\ result.listeners = << >>
  /\ result.calls = << >>

\* ---- C10
\* C10: when _events is not an object, or the value stored for the event is
\* neither a function nor an array (absent included), Emit returns false at
\* once, having called no listener and reported no error.
C10_NothingToEmit ==
  (~events_v \/ listeners_v.kind \in {"undefined", "other"})
    => /\ stack = << >>
       /\ EmitReturned
            => /\ result.value = FALSE
               /\ result.calls = << >>
               /\ result.reports = 0

\* Emit returned on an emitter whose stored value is neither function nor
\* array.
C10_Witness ==
  /\ EmitReturned
  /\ events_v
  /\ listeners_v.kind = "other"

\* ---- C11
\* C11: Emit on a stored function f and Emit on the stored array [f] have
\* the same observable effect: f is called exactly once, on the emitting
\* object and with the arguments of the Emit, and Emit returns true with
\* nothing reported when f returns, false with the error reported once when
\* f throws.
C11_FastPathEquivalence ==
  \A f \in Fns :
    (EmitReturned /\ result.shape \in {"function", "array"}
       /\ result.listeners = <<f>>)
      => /\ result.calls = <<[fn |-> f, target |-> "handle_",
                              argv |-> result.argv]>>
         /\ \/ result.value = TRUE /\ result.reports = 0
            \/ result.value = FALSE /\ result.reports = 1

\* Emit(O, "x", [1, 2]) on a stored function returned after the function
\* threw.
C11_Witness ==
  /\ EmitReturned
  /\ result.shape = "function"
  /\ result.argv = <<1, 2>>
  /\ result.value = FALSE

\* ---- C12
Idle(s) == ~trace_[s] /\ parent_source_[s] = NULL /\ refs_[s] = 0

\* C12: Inactive() on an Idle source (no trace, no parent link, reference
\* count not bumped) changes nothing of that source: still no trace, no
\* parent link, and the reference count where it was.
C12_InactiveIdempotent ==
  [][ result'.op = "Inactive"
        => \A s \in Sources :
             (s = result'.self /\ Idle(s))
               => /\ trace_'[s] = trace_[s]
                  /\ parent_source_'[s] = parent_source_[s]
                  /\ refs_'[s] = refs_[s] ]_vars

\* ---- C13
\* C13: after any sequence of Active() and Inactive() calls the reference
\* count bump of a source is 1 while it is Active (it holds a trace) and 0
\* while it is Idle.
C13_BumpMatchesState ==
  \A s \in Alive : refs_[s] = (IF trace_[s] THEN 1 ELSE 0)

\* ---- C14
\* C14: right after any Active() call on a source, re-activation included,
\* its parent link is present exactly when current_source was non-null at
\* that call, and then refers to that source.
C14_ParentIsCurrentAtCapture ==
  [][ result'.op = "Active"
        => \A s \in Sources :
             s = result'.self => parent_source_'[s] = current_source ]_vars

\* ---- C15
\* C15: while the process runs no live source has a parent link to a
\* collected object, and when an object is collected while sources hold
\* weak parent handles to it, the parent link of each of them is absent
\* after the collection.
C15_WeakParentCleared ==
  /\ status = "running"
       => \A s \in Alive : parent_source_[s] \notin collected
  /\ result.op = "WeakParent"
       => /\ result.object \in collected
          /\ \A s \in result.sources : parent_source_[s] = NULL

\* The object of a source was collected while a still Active source held a
\* parent link to it; the link did not keep it and is now absent.
C15_Witness ==
  /\ result.op = "WeakParent"
  /\ \E s \in result.sources :
       s \in Alive /\ trace_[s] /\ refs_[s] = 1 /\ orphans[s] = {}
         /\ parent_source_[s] = NULL

\* ---- C16
\* The number N of distinct sources in the causal chain that starts at s:
\* each holds a trace and a parent link to the next; the chain ends at a
\* source without a parent link, before a source without a trace, or
\* before a source it already holds.
RECURSIVE ChainLength(_, _)
ChainLength(s, seen) ==
  IF s \in seen \/ ~trace_[s] THEN 0
  ELSE 1 + (IF parent_source_[s] # NULL
              THEN ChainLength(parent_source_[s], seen \cup {s})
              ELSE 0)

\* C16 as stated: with a chain of N > kAncestorStackLimit sources, a fatal
\* callback error in the innermost one prints exactly kAncestorStackLimit
\* sections.
C16_PrintsLimitSections ==
  (status = "exit"
     /\ ChainLength(exited.source, {}) > kAncestorStackLimit)
    => exited.sections = kAncestorStackLimit

\* C16 amended: PrintStack never prints more than kAncestorStackLimit + 1
\* sections, and with a chain of N > kAncestorStackLimit sources a fatal
\* callback error in the innermost one prints exactly
\* kAncestorStackLimit + 1 sections (the trace of the failing source and
\* those of its first kAncestorStackLimit ancestors): all N when
\* N = kAncestorStackLimit + 1, fewer than N when N is larger.
C16_PrintsLimitPlusOneSections ==
  status = "exit"
    => LET N == ChainLength(exited.source, {})
       IN /\ exited.sections <= kAncestorStackLimit + 1
          /\ N > kAncestorStackLimit
               => exited.sections = kAncestorStackLimit + 1
          /\ N > kAncestorStackLimit + 1 => exited.sections < N

\* A callback threw in the innermost source of a chain of
\* kAncestorStackLimit + 2 distinct sources, and fewer sections than
\* sources were printed.
C16_Witness ==
  /\ status = "exit"
  /\ ChainLength(exited.source, {}) = kAncestorStackLimit + 2
  /\ Cardinality({s \in Sources : trace_[s] /\ s \notin collected})
       >= kAncestorStackLimit + 2
  /\ exited.sections = kAncestorStackLimit + 1

\* ---- C17
\* C17: when the callback property is not a function, MakeCallback returns
\* the empty result having called nothing, and leaves current_source, the
\* cached tick callback and process handles, the stack and the process
\* status as they were.
C17_NotCallableFrame ==
  [][ (result'.op = "MakeCallback" /\ ~callback_v[result'.self])
        => /\ result'.value = Empty
           /\ result'.calls = << >>
           /\ UNCHANGED <<current_source, tick_cb, process, stack, status>>
    ]_vars

\* MakeCallback on a source without a callable callback returned, called
\* from inside the callback of another source.
C17_Witness ==
  /\ MakeCallbackReturned
  /\ ~callback_v[result.self]
  /\ result.value = Empty
  /\ current_source # NULL
  /\ ~tick_cb

\* ---- C18
\* C18: whenever no _MakeCallback frame is on the call stack, current_source
\* is NULL, whatever Active, Inactive, MakeCallback and Emit calls came
\* before.
C18_NullOutsideCallbacks ==
  (\A n \in 1..Len(stack) : stack[n].kind # "MakeCallback")
    => current_source = NULL

\* An outermost MakeCallback has returned after a source was activated
\* inside a callback.
C18_Witness ==
  /\ stack = << >>
  /\ MakeCallbackReturned
  /\ result.entered_from = NULL
  /\ \E s \in Sources : parent_source_[s] # NULL

\* ---- C19
\* C19: the assertion of WeakParent never fails, and whenever the weak
\* notification for a collected object is delivered to a source, the parent
\* link of that source refers to that object.
C19_WeakParentAssertionHolds ==
  [][ /\ status' # "assert_weak"
      /\ result'.op = "WeakParent"
           => \A s \in result'.sources :
                parent_source_[s] = result'.object ]_vars

\* ---- C20
\* The source of the innermost _MakeCallback frame on the stack: the source
\* whose callback or tick callback is running, directly or through the
\* listeners it emitted to; NULL when there is none.
InnermostSource ==
  LET frames == {n \in 1..Len(stack) : stack[n].kind = "MakeCallback"}
  IN IF frames = {} THEN NULL
     ELSE stack[CHOOSE n \in frames : \A m \in frames : m <= n].self

\* C20: the tick callback of a MakeCallback call on S starts with
\* current_source = S; a source that calls Active() while the callback or
\* the tick callback of S runs gets S as its parent link, and one that
\* calls Active() while no callback is on the stack gets no parent link set
\* by that call.
C20_ParentIsRunningSource ==
  [][ /\ (InMakeCallback /\ Top.callee = "callback" /\ status' = "running"
            /\ Len(stack') = Len(stack) /\ stack'[Len(stack')].callee = "tick")
           => current_source' = Top.self
      /\ result'.op = "Active"
           => \A s \in Sources :
                s = result'.self
                  => parent_source_'[s]
                       = (IF InnermostSource # NULL THEN InnermostSource
                          ELSE parent_source_[s]) ]_vars

====
